---- MODULE Spec2Model ----
(***************************************************************************)
(* A model of golog: the Level enum and its name mapping, the Logger with  *)
(* its field chaining and level gating, the context accessors, the         *)
(* ResponseWriterRecorder and the request/response logging middleware.     *)
(***************************************************************************)
EXTENDS Integers, Sequences, FiniteSets, TLC

(***************************************************************************)
(* Bounds of the model.                                                    *)
(***************************************************************************)
\* Level is an int type: arguments range over LevelMin..MaxLevelArg.
MaxLevelArg == 4
\* Logger entries (the base entry and those derived by WithFields).
MaxEntries == 3
\* Emitting calls made in the Logger specification.
MaxEmits == 1
\* Context nodes derived in the context specification.
MaxCtxNodes == 3
\* WriteHeader/Write calls the downstream handler makes in one request.
MaxCalls == 2
\* Requests the middleware instance serves.
MaxReqs == 2

(***************************************************************************)
(* State                                                                   *)
(***************************************************************************)
\* lvArg, nameArg: the Level and the string the conversions are applied to;
\* strRes = lvArg.String(), getRes = GetLevel(nameArg), backLevel =
\* GetLevel(lvArg.String()), backName = GetLevel(nameArg).String().
VARIABLES lvArg, nameArg, strRes, getRes, backLevel, backName

lvlVars == <<lvArg, nameArg, strRes, getRes, backLevel, backName>>

\* entries: the logrus entries created so far (entries[1] is the one New
\* made); lgMin: the Level New was given; out: the entries written to the
\* log sink; lcalls: the WithFields calls made, emits: the emitting calls
\* made, both with what they saw and did.
VARIABLES entries, lgMin, out, lcalls, emits

lgVars == <<entries, lgMin, lcalls, emits>>

\* ctxHeap: the context nodes created so far; ctxBound: for each node, the
\* request ID and logger most recently bound in its lineage when it was
\* created (the defaults when none was).
VARIABLES ctxHeap, ctxBound

ctxVars == <<ctxHeap, ctxBound>>

\* mwLogger, LogResponse: the logger and the option NewMiddlewareWithOptions
\* was given; builtBy: the constructor the middleware was built with.
\* Per request: pc, where its execution is; ctx, body: the request's context
\* and body; body0: the body as it arrived; requestID, lwr: the locals
\* requestID and loggerWithRequestID; rec: the recorder; sink: the response
\* writer the host passed; deferred: whether logResponse is deferred;
\* hcalls: the calls the downstream handler made on the writer it got, with
\* what the sink returned and what the handler got back; hread: what the
\* handler read from the request body; respRuns: the runs of logResponse.
\* nextUuid: the identifiers generated so far, plus one.
VARIABLES mwLogger, LogResponse, pc, ctx, body, body0, requestID, lwr, rec, sink,
          deferred, hcalls, hread, respRuns, nextUuid, builtBy

mwVars == <<mwLogger, LogResponse, pc, ctx, body, body0, requestID, lwr, rec, sink,
            deferred, hcalls, hread, respRuns, nextUuid, builtBy>>

reqVars == <<ctx, body, body0, requestID, lwr, rec, sink, deferred, hcalls, hread,
             respRuns>>

vars == <<lvlVars, lgVars, out, ctxVars, mwVars>>

\* What the actions of each part leave alone.
lvlFrame == <<lgVars, out, ctxVars, mwVars>>
lgFrame == <<lvlVars, ctxVars, mwVars>>
ctxFrame == <<lvlVars, lgVars, out, mwVars>>
mwFrame == <<lvlVars, lgVars, ctxBound, builtBy>>

(***************************************************************************)
(* Level                                                                    *)
(***************************************************************************)
DEBUG == 0
INFO == 1
WARN == 2
ERROR == 3

Levels == {DEBUG, INFO, WARN, ERROR}
LevelArgs == (0 - 1) .. MaxLevelArg

\* The outcome of a call that panics instead of returning.
Panicked == "<panic>"
\* A result that has not been computed yet.
Unset == "<unset>"
NoLevel == 0 - 9

\* Level.String: indexes a four-element array; any other index panics.
LevelNames == <<"debug", "info", "warning", "error">>
String(l) == IF l + 1 \in DOMAIN LevelNames THEN LevelNames[l + 1] ELSE Panicked

\* lookupMap and GetLevel: a missing key yields the zero Level.
lookupMap == [s \in {"debug", "info", "warn", "error"} |->
                CASE s = "debug" -> DEBUG
                  [] s = "info" -> INFO
                  [] s = "warn" -> WARN
                  [] s = "error" -> ERROR]
GetLevel(s) == IF s \in DOMAIN lookupMap THEN lookupMap[s] ELSE 0

\* logrus levels, as the library numbers them (lower is more severe).
LogrusErrorLevel == 2
LogrusWarnLevel == 3
LogrusInfoLevel == 4
LogrusDebugLevel == 5

\* toLogrusLevel without its WARN case: WARN falls to the default.
toLogrusLevelNoWarn(l) ==
  CASE l = DEBUG -> LogrusDebugLevel
    [] l = INFO -> LogrusInfoLevel
    [] l = ERROR -> LogrusErrorLevel
    [] OTHER -> LogrusInfoLevel

toLogrusLevel(l) ==
  CASE l = DEBUG -> LogrusDebugLevel
    [] l = INFO -> LogrusInfoLevel
    [] l = WARN -> LogrusWarnLevel
    [] l = ERROR -> LogrusErrorLevel
    [] OTHER -> LogrusInfoLevel

\* The strings handed to GetLevel and compared with String's results.
NameArgs == {"debug", "info", "warn", "error", "warning", "INFO", "", "trace"}
RecognizedNames == {"debug", "info", "warn", "error"}


LvlIdle ==
  /\ lvArg = NoLevel /\ nameArg = Unset /\ strRes = Unset
  /\ getRes = NoLevel /\ backLevel = NoLevel /\ backName = Unset

LvlInit ==
  /\ lvArg \in LevelArgs
  /\ nameArg \in NameArgs
  /\ strRes = Unset
  /\ getRes = NoLevel
  /\ backLevel = NoLevel
  /\ backName = Unset

\* l.String()
LvString ==
  /\ strRes = Unset
  /\ strRes' = String(lvArg)
  /\ UNCHANGED <<lvArg, nameArg, getRes, backLevel, backName, lvlFrame>>

\* GetLevel(s)
LvGetLevel ==
  /\ getRes = NoLevel
  /\ getRes' = GetLevel(nameArg)
  /\ UNCHANGED <<lvArg, nameArg, strRes, backLevel, backName, lvlFrame>>

\* GetLevel(l.String())
LvBackLevel ==
  /\ strRes \notin {Unset, Panicked}
  /\ backLevel = NoLevel
  /\ backLevel' = GetLevel(strRes)
  /\ UNCHANGED <<lvArg, nameArg, strRes, getRes, backName, lvlFrame>>

\* GetLevel(s).String()
LvBackName ==
  /\ getRes # NoLevel
  /\ backName = Unset
  /\ backName' = String(getRes)
  /\ UNCHANGED <<lvArg, nameArg, strRes, getRes, backLevel, lvlFrame>>

LvlNext == LvString \/ LvGetLevel \/ LvBackLevel \/ LvBackName

(***************************************************************************)
(* Logger                                                                  *)
(***************************************************************************)
ErrorKey == "error"
StacktraceKey == "stack_trace"

\* A map with no keys.
EmptyFields == <<>>

\* fmt.Sprintf("%+v", val): the extended rendering of a field value.  An
\* error that carries a stack renders with it; any other value renders as
\* its plain text, the empty string as the empty string.
Render(v) == IF v = "errStack" THEN "errStack+stack" ELSE v

\* logrus Entry.WithFields: a fresh map, the entry's data overlaid with the
\* given fields (the given fields win).
EntryWithFields(data, fields) == fields @@ data

\* WithFields that stores the plain rendering ("%v") of the "error" value.
ArgAfterWithFieldsPlain(fields) ==
  IF ErrorKey \in DOMAIN fields
    THEN (StacktraceKey :> fields[ErrorKey]) @@ fields
    ELSE fields

\* The caller's map after Logger.WithFields: line 127-129 stores the
\* rendering of its "error" value under StacktraceKey in the map it was given.
ArgAfterWithFields(fields) ==
  IF ErrorKey \in DOMAIN fields
    THEN (StacktraceKey :> Render(fields[ErrorKey])) @@ fields
    ELSE fields

\* The field set of the logger Logger.WithFields returns.
WithFieldsData(data, fields) == EntryWithFields(data, ArgAfterWithFields(fields))

\* Logger.WithFields on logger values: the logrus logger (level, sink) is
\* shared, the entry is new.
WithFields(l, fields) == [level |-> l.level, data |-> WithFieldsData(l.data, fields)]

\* New: a logrus logger at the translated level with an entry without fields.
New(l) == [level |-> toLogrusLevel(l), data |-> EmptyFields]

\* logrus Logger.IsLevelEnabled.
IsLevelEnabled(loggerLevel, lv) == loggerLevel >= lv

\* logrus Entry.Logln: one entry written when the level is enabled.
Logln(o, l, lv, by) ==
  IF IsLevelEnabled(l.level, lv)
    THEN Append(o, [severity |-> lv, data |-> l.data, by |-> by])
    ELSE o

Debugln(o, l, by) == Logln(o, l, LogrusDebugLevel, by)
Infoln(o, l, by) == Logln(o, l, LogrusInfoLevel, by)
Warnln(o, l, by) == Logln(o, l, LogrusWarnLevel, by)
Errorln(o, l, by) == Logln(o, l, LogrusErrorLevel, by)

\* The emitting method for each Level.
EmitAt(o, l, v, by) ==
  CASE v = DEBUG -> Debugln(o, l, by)
    [] v = INFO -> Infoln(o, l, by)
    [] v = WARN -> Warnln(o, l, by)
    [] v = ERROR -> Errorln(o, l, by)

\* WithFields that adds the fields to the receiver's own map as well.
EntriesAfterWithFieldsInPlace(es, e, fields) ==
  Append([es EXCEPT ![e] = WithFields(es[e], fields)], WithFields(es[e], fields))

\* The heap of logrus entries after WithFields on entry e: the new entry is
\* appended, the entries that exist are left as they are.
EntriesAfterWithFields(es, e, fields) == Append(es, WithFields(es[e], fields))

\* The log sink after WithFields: the method writes nothing.
OutAfterWithFields(o, l, fields) == o

\* The field mappings callers pass to WithFields.
FieldMaps ==
  { ("a" :> "1"),
    ("a" :> "2") @@ ("b" :> "1"),
    (ErrorKey :> "errStack"),
    (ErrorKey :> "errPlain") @@ (StacktraceKey :> "mine") @@ ("a" :> "3"),
    (ErrorKey :> "") }


LgIdle ==
  /\ entries = <<>> /\ lgMin = NoLevel /\ lcalls = <<>> /\ emits = <<>>

LgInit ==
  /\ lgMin \in LevelArgs
  /\ entries = <<New(lgMin)>>
  /\ lcalls = <<>>
  /\ emits = <<>>
  /\ out = <<>>

\* entries[e].WithFields(fields)
LgWithFields(e, fields) ==
  /\ Len(entries) < MaxEntries
  /\ entries' = EntriesAfterWithFields(entries, e, fields)
  /\ out' = OutAfterWithFields(out, entries[e], fields)
  /\ lcalls' = Append(lcalls,
       [recv |-> e, recvBefore |-> entries[e].data, arg |-> fields,
        argAfter |-> ArgAfterWithFields(fields), res |-> Len(entries) + 1,
        wrote |-> Len(out') - Len(out)])
  /\ UNCHANGED <<lgMin, emits, lgFrame>>

\* entries[e].Debugln / Infoln / Warnln / Errorln
LgEmit(e, v) ==
  /\ Len(emits) < MaxEmits
  /\ out' = EmitAt(out, entries[e], v, 0)
  /\ emits' = Append(emits, [entry |-> e, v |-> v, wrote |-> Len(out') - Len(out)])
  /\ UNCHANGED <<entries, lgMin, lcalls, lgFrame>>

LgNext ==
  \/ \E e \in DOMAIN entries, fields \in FieldMaps : LgWithFields(e, fields)
  \/ \E e \in DOMAIN entries, v \in Levels : LgEmit(e, v)

(***************************************************************************)
(* Context accessors (middleware.go:68-102)                                *)
(***************************************************************************)
ContextKeyRequestID == "requestId"
ContextKeyLogger == "logger"

\* Values stored in a context, and the nil interface value.
StringVal(s) == [t |-> "string", s |-> s]
LoggerVal(l) == [t |-> "logger", l |-> l]
NilVal == [t |-> "nil"]

\* context.Background(): the context that binds nothing.
Background == 0

\* WithValue that rebinds the key in the parent when the parent binds it.
WithValueRebinding(h, parent, key, val) ==
  Append(IF parent # Background /\ h[parent].key = key
           THEN [h EXCEPT ![parent].val = val] ELSE h,
         [parent |-> parent, key |-> key, val |-> val])

\* context.WithValue: a new node that points at its parent; the heap of
\* nodes that exist is left as it is.
WithValue(h, parent, key, val) ==
  Append(h, [parent |-> parent, key |-> key, val |-> val])

\* ctx.Value(key): the nearest node of the lineage that binds key.
RECURSIVE Value(_, _, _)
Value(h, c, key) ==
  IF c = Background THEN NilVal
  ELSE IF h[c].key = key THEN h[c].val
  ELSE Value(h, h[c].parent, key)

GetRequestID(h, c) ==
  LET v == Value(h, c, ContextKeyRequestID)
  IN IF v = NilVal THEN "Unknown"
     ELSE IF v.t = "string" THEN v.s ELSE Panicked

WithLogger(h, c, logger) == WithValue(h, c, ContextKeyLogger, LoggerVal(logger))

GetLogger(h, c) ==
  LET logger == Value(h, c, ContextKeyLogger)
  IN IF logger = NilVal THEN New(INFO) ELSE logger.l

\* The request IDs and loggers bound by the context specification.
CtxIDs == {"id-a", "id-b"}
CtxLoggers == {New(DEBUG), WithFields(New(ERROR), ("a" :> "1"))}


Unbound == [rid |-> "Unknown", logger |-> New(INFO)]
BoundAt(b, c) == IF c = Background THEN Unbound ELSE b[c]

CtxInit ==
  /\ ctxHeap = <<>>
  /\ ctxBound = <<>>

\* context.WithValue(parent, ContextKeyRequestID, id)
CtxWithRequestID(parent, id) ==
  /\ Len(ctxHeap) < MaxCtxNodes
  /\ ctxHeap' = WithValue(ctxHeap, parent, ContextKeyRequestID, StringVal(id))
  /\ ctxBound' = Append(ctxBound, [BoundAt(ctxBound, parent) EXCEPT !.rid = id])
  /\ UNCHANGED ctxFrame

\* WithLogger(parent, l)
CtxWithLogger(parent, l) ==
  /\ Len(ctxHeap) < MaxCtxNodes
  /\ ctxHeap' = WithLogger(ctxHeap, parent, l)
  /\ ctxBound' = Append(ctxBound, [BoundAt(ctxBound, parent) EXCEPT !.logger = l])
  /\ UNCHANGED ctxFrame

CtxNext ==
  \/ \E parent \in {Background} \cup DOMAIN ctxHeap, id \in CtxIDs :
       CtxWithRequestID(parent, id)
  \/ \E parent \in {Background} \cup DOMAIN ctxHeap, l \in CtxLoggers :
       CtxWithLogger(parent, l)

(***************************************************************************)
(* Byte strings, JSON decoding and request bodies                          *)
(***************************************************************************)
\* A []byte: nil, or a sequence of bytes.
NilBytes == [nil |-> TRUE, b |-> <<>>]
Bytes(b) == [nil |-> FALSE, b |-> b]

\* The byte strings that are JSON texts, among those the model uses.
JSONTexts == {<<"{", "}">>, <<"7">>}

\* json.Unmarshal into an interface{}: the decoded value, or an error.
Unmarshal(b) ==
  IF b \in JSONTexts THEN [err |-> FALSE, v |-> [t |-> "json", v |-> b]]
  ELSE [err |-> TRUE, v |-> NilVal]

\* http.NoBody, a body read from the connection (it delivers data up to
\* failAt and then fails; failAt < 0: it never fails), and the in-memory
\* buffer logRequest puts in its place.
NoBody == [kind |-> "NoBody", data |-> <<>>, failAt |-> 0 - 1, pos |-> 0]
Stream(data, failAt) == [kind |-> "stream", data |-> data, failAt |-> failAt, pos |-> 0]
NopCloserBuffer(buf) == [kind |-> "buffer", data |-> buf, failAt |-> 0 - 1, pos |-> 0]

\* ioutil.ReadAll: everything from the current position up to the end of
\* the data or the failure; the bytes read so far come back with the error.
ReadAll(bd) ==
  LET limit == IF bd.failAt >= bd.pos THEN bd.failAt ELSE Len(bd.data)
  IN [buf |-> SubSeq(bd.data, bd.pos + 1, limit),
      err |-> bd.failAt >= bd.pos,
      after |-> [bd EXCEPT !.pos = limit]]

\* The request bodies that arrive.
RequestBodies ==
  { NoBody,
    Stream(<<"{", "}">>, 0 - 1),
    Stream(<<"h", "i">>, 0 - 1),
    Stream(<<>>, 0 - 1),
    Stream(<<"{", "}">>, 1) }

(***************************************************************************)
(* ResponseWriterRecorder (middleware.go:16-66) and the sink it wraps      *)
(***************************************************************************)
StatusOK == 200

\* The calls a response writer receives.
WriteHeaderCall(code) == [op |-> "WriteHeader", code |-> code, b |-> NilBytes]
WriteCall(b) == [op |-> "Write", code |-> 0, b |-> b]

\* The wrapped http.ResponseWriter: its Request-ID header values, the calls
\* it received, the status it committed (0: none yet) and the bytes it sent.
\* The first WriteHeader commits the status, later ones are ignored.
NewSink(header) == [header |-> header, calls |-> <<>>, committed |-> 0, sent |-> <<>>]

SinkWriteHeader(sk, code) ==
  [sk EXCEPT !.calls = Append(@, WriteHeaderCall(code)),
             !.committed = IF @ = 0 THEN code ELSE @]

SinkWrite(sk, b, res) ==
  [sk EXCEPT !.calls = Append(@, WriteCall(b)),
             !.committed = IF @ = 0 THEN StatusOK ELSE @,
             !.sent = @ \o SubSeq(b.b, 1, res.n)]

\* What the sink's Write may return for b: all of it written, or an I/O error.
SinkResults(b) == {[n |-> Len(b.b), err |-> FALSE], [n |-> 0, err |-> TRUE]}

NewResponseWriterRecorder == [status |-> 200, body |-> NilBytes, isStatusSet |-> FALSE]

\* ResponseWriterRecorder.WriteHeader, on the recorder and its sink.
RecWriteHeader(rc, sk, statusCode) ==
  [rec |-> [rc EXCEPT !.status = statusCode, !.isStatusSet = TRUE],
   sink |-> SinkWriteHeader(sk, statusCode)]

\* Write that reports success whatever the sink returned.
RecWriteSwallowing(rc, sk, b, res) ==
  LET h == IF ~rc.isStatusSet THEN RecWriteHeader(rc, sk, StatusOK)
           ELSE [rec |-> rc, sink |-> sk]
  IN [rec |-> [h.rec EXCEPT !.body = b],
      sink |-> SinkWrite(h.sink, b, res),
      ret |-> [n |-> Len(b.b), err |-> FALSE]]

\* Write that calls WriteHeader(200) without looking at isStatusSet.
RecWriteAlwaysOK(rc, sk, b, res) ==
  LET h == RecWriteHeader(rc, sk, StatusOK)
  IN [rec |-> [h.rec EXCEPT !.body = b],
      sink |-> SinkWrite(h.sink, b, res),
      ret |-> res]

\* Write that appends to the captured body.
RecWriteCumulative(rc, sk, b, res) ==
  LET h == IF ~rc.isStatusSet THEN RecWriteHeader(rc, sk, StatusOK)
           ELSE [rec |-> rc, sink |-> sk]
  IN [rec |-> [h.rec EXCEPT !.body = Bytes(@.b \o b.b)],
      sink |-> SinkWrite(h.sink, b, res),
      ret |-> res]

\* ResponseWriterRecorder.Write, on the recorder and its sink; res is what
\* the sink's Write returns, ret what the recorder's Write returns.
RecWrite(rc, sk, b, res) ==
  LET h == IF ~rc.isStatusSet THEN RecWriteHeader(rc, sk, StatusOK)
           ELSE [rec |-> rc, sink |-> sk]
  IN [rec |-> [h.rec EXCEPT !.body = b],
      sink |-> SinkWrite(h.sink, b, res),
      ret |-> res]

\* ResponseWriterRecorder.Header().Add("Request-ID", id)
HeaderAdd(sk, id) == [sk EXCEPT !.header = Append(@, id)]

(***************************************************************************)
(* The middleware (middleware.go:104-205)                                  *)
(***************************************************************************)
Reqs == 1 .. MaxReqs

\* uuid.New().String(): the n-th identifier generated.
UuidPool == <<"uuid-1", "uuid-2", "uuid-3", "uuid-4">>
\* A generator that hands out the same ID to every request.
NewUuidFixed(n) == UuidPool[1]
NewUuid(n) == UuidPool[n]

\* The request as the handlers see it, apart from its context and body.
Method == "POST"
Path == "/items"
Api == "POST_/items"

\* logRequest that logs the raw text of an undecodable body without the
\* bodyError field.
logRequestNoDecodeError(o, logger, bd, by) ==
  LET present == bd.kind # "NoBody"
      ra == ReadAll(bd)
      um == Unmarshal(ra.buf)
      requestBody == IF ~present \/ ra.err THEN NilVal
                     ELSE IF um.err THEN StringVal(ra.buf) ELSE um.v
      logger1 == IF present /\ ra.err
                   THEN WithFields(logger, ("bodyError" :> "readErr"))
                 ELSE logger
      fields == ("remoteAddr" :> "addr") @@ ("protocol" :> "HTTP/1.1")
                @@ ("method" :> Method) @@ ("header" :> <<"reqhdr">>)
                @@ ("uri" :> Path) @@ ("userAgent" :> "ua")
                @@ ("requestBody" :> requestBody)
  IN [body |-> IF ~present THEN bd
               ELSE IF ra.err THEN ra.after
               ELSE NopCloserBuffer(ra.buf),
      out |-> Debugln(o, WithFields(logger1, fields), by)]

\* logRequest that logs what it could read of a body whose read failed.
logRequestKeepsPartial(o, logger, bd, by) ==
  LET present == bd.kind # "NoBody"
      ra == ReadAll(bd)
      um == Unmarshal(ra.buf)
      requestBody == IF ~present THEN NilVal
                     ELSE IF um.err THEN StringVal(ra.buf) ELSE um.v
      logger1 == IF present /\ ra.err
                   THEN WithFields(logger, ("bodyError" :> "readErr"))
                 ELSE IF present /\ um.err
                   THEN WithFields(logger, ("bodyError" :> "jsonErr"))
                 ELSE logger
      fields == ("remoteAddr" :> "addr") @@ ("protocol" :> "HTTP/1.1")
                @@ ("method" :> Method) @@ ("header" :> <<"reqhdr">>)
                @@ ("uri" :> Path) @@ ("userAgent" :> "ua")
                @@ ("requestBody" :> requestBody)
  IN [body |-> IF ~present THEN bd
               ELSE IF ra.err THEN ra.after
               ELSE NopCloserBuffer(ra.buf),
      out |-> Debugln(o, WithFields(logger1, fields), by)]

\* logRequest: what it leaves of the body, and the log sink after it.
logRequest(o, logger, bd, by) ==
  LET present == bd.kind # "NoBody"
      ra == ReadAll(bd)
      um == Unmarshal(ra.buf)
      requestBody == IF ~present \/ ra.err THEN NilVal
                     ELSE IF um.err THEN StringVal(ra.buf) ELSE um.v
      logger1 == IF present /\ ra.err
                   THEN WithFields(logger, ("bodyError" :> "readErr"))
                 ELSE IF present /\ um.err
                   THEN WithFields(logger, ("bodyError" :> "jsonErr"))
                 ELSE logger
      fields == ("remoteAddr" :> "addr") @@ ("protocol" :> "HTTP/1.1")
                @@ ("method" :> Method) @@ ("header" :> <<"reqhdr">>)
                @@ ("uri" :> Path) @@ ("userAgent" :> "ua")
                @@ ("requestBody" :> requestBody)
  IN [body |-> IF ~present THEN bd
               ELSE IF ra.err THEN ra.after
               ELSE NopCloserBuffer(ra.buf),
      out |-> Debugln(o, WithFields(logger1, fields), by)]

\* logResponse: the log sink after it.
\* logResponse that reads the recorder as it was when the call was deferred.
logResponseAtDefer(o, logger, rc, sk, by) ==
  LET rc0 == NewResponseWriterRecorder
      um == Unmarshal(rc0.body.b)
      responseBody == IF rc0.body.nil THEN NilVal
                      ELSE IF um.err THEN StringVal(rc0.body.b) ELSE um.v
      logger1 == IF ~rc0.body.nil /\ um.err
                   THEN WithFields(logger, ("bodyError" :> "jsonErr"))
                   ELSE logger
      fields == ("duration" :> "elapsed") @@ ("header" :> sk.header)
                @@ ("responseBody" :> responseBody) @@ ("status" :> rc0.status)
                @@ ("api" :> Api)
  IN Debugln(o, WithFields(logger1, fields), by)

logResponse(o, logger, rc, sk, by) ==
  LET um == Unmarshal(rc.body.b)
      responseBody == IF rc.body.nil THEN NilVal
                      ELSE IF um.err THEN StringVal(rc.body.b) ELSE um.v
      logger1 == IF ~rc.body.nil /\ um.err
                   THEN WithFields(logger, ("bodyError" :> "jsonErr"))
                   ELSE logger
      fields == ("duration" :> "elapsed") @@ ("header" :> sk.header)
                @@ ("responseBody" :> responseBody) @@ ("status" :> rc.status)
                @@ ("api" :> Api)
  IN Debugln(o, WithFields(logger1, fields), by)

\* The contexts a request arrives with: nothing bound; a request ID bound;
\* a request ID and a logger bound and Request-ID already set on the
\* response (the request went through an outer instance of the middleware).
IncomingKinds == {"background", "requestID", "nested"}
OuterID == "outer-id"
OuterLogger == WithFields(New(ERROR), (ContextKeyRequestID :> OuterID))

IncomingHeap(h, kind) ==
  CASE kind = "background" -> h
    [] kind = "requestID" ->
         WithValue(h, Background, ContextKeyRequestID, StringVal(OuterID))
    [] kind = "nested" ->
         WithLogger(WithValue(h, Background, ContextKeyRequestID, StringVal(OuterID)),
                    Len(h) + 1, OuterLogger)
IncomingCtx(h, kind) ==
  IF kind = "background" THEN Background ELSE Len(IncomingHeap(h, kind))
IncomingHeader(kind) == IF kind = "nested" THEN <<OuterID>> ELSE <<>>

\* logResponse called after next.ServeHTTP instead of deferred: a panic skips it.
RunsOnReturnOnly(registered, outcome) == registered /\ outcome = "returned"

\* Whether a deferred call runs when the function is left after the
\* downstream handler returned or panicked: Go runs it in both cases.
RunsDeferred(registered, outcome) == registered

\* The base logger bound into the context instead of the derived one.
BindRequestBaseLogger(h, c, lg, id) ==
  LET h1 == WithValue(h, c, ContextKeyRequestID, StringVal(id))
      l == WithFields(lg, (ContextKeyRequestID :> id))
      h2 == WithLogger(h1, Len(h1), lg)
  IN [heap |-> h2, ctx |-> Len(h2), lwr |-> l]

\* Lines 125-131: the request ID bound into the context, the logger with
\* the request ID made and bound into the context.
BindRequest(h, c, lg, id) ==
  LET h1 == WithValue(h, c, ContextKeyRequestID, StringVal(id))
      l == WithFields(lg, (ContextKeyRequestID :> id))
      h2 == WithLogger(h1, Len(h1), l)
  IN [heap |-> h2, ctx |-> Len(h2), lwr |-> l]

\* The handler has not read the request body.
NoRead == [done |-> FALSE, buf |-> <<>>, err |-> FALSE]


\* The options NewMiddleware passes to NewMiddlewareWithOptions, and those an
\* empty MiddlewareOptions literal would pass.
NewMiddlewareOptionsZero == [LogResponse |-> FALSE]
NewMiddlewareOptions == [LogResponse |-> TRUE]

MwInit ==
  /\ mwLogger \in {New(DEBUG), New(INFO)}
  /\ builtBy \in {"NewMiddleware", "NewMiddlewareWithOptions"}
  /\ LogResponse \in IF builtBy = "NewMiddleware"
                       THEN {NewMiddlewareOptions.LogResponse} ELSE BOOLEAN
  /\ pc = [r \in Reqs |-> "idle"]
  /\ ctx = [r \in Reqs |-> Background]
  /\ body = [r \in Reqs |-> NoBody]
  /\ body0 = [r \in Reqs |-> NoBody]
  /\ requestID = [r \in Reqs |-> Unset]
  /\ lwr = [r \in Reqs |-> New(INFO)]
  /\ rec = [r \in Reqs |-> NewResponseWriterRecorder]
  /\ sink = [r \in Reqs |-> NewSink(<<>>)]
  /\ deferred = [r \in Reqs |-> FALSE]
  /\ hcalls = [r \in Reqs |-> <<>>]
  /\ hread = [r \in Reqs |-> NoRead]
  /\ respRuns = [r \in Reqs |-> 0]
  /\ nextUuid = 1
  /\ out = <<>>
  /\ ctxHeap = <<>>

\* A request arrives and the handler function starts: lines 122-131.
Begin(r, kind, b) ==
  /\ pc[r] = "idle"
  /\ LET id == NewUuid(nextUuid)
         bound == BindRequest(IncomingHeap(ctxHeap, kind), IncomingCtx(ctxHeap, kind),
                              mwLogger, id)
     IN /\ requestID' = [requestID EXCEPT ![r] = id]
        /\ lwr' = [lwr EXCEPT ![r] = bound.lwr]
        /\ ctxHeap' = bound.heap
        /\ ctx' = [ctx EXCEPT ![r] = bound.ctx]
  /\ nextUuid' = nextUuid + 1
  /\ body' = [body EXCEPT ![r] = b]
  /\ body0' = [body0 EXCEPT ![r] = b]
  /\ sink' = [sink EXCEPT ![r] = NewSink(IncomingHeader(kind))]
  /\ pc' = [pc EXCEPT ![r] = "bound"]
  /\ UNCHANGED <<mwFrame, mwLogger, LogResponse, rec, deferred, hcalls, hread, respRuns, out>>

\* logRequest(loggerWithRequestID, r): line 133.
LogRequest(r) ==
  /\ pc[r] = "bound"
  /\ LET res == logRequest(out, lwr[r], body[r], r)
     IN /\ body' = [body EXCEPT ![r] = res.body]
        /\ out' = res.out
  /\ pc' = [pc EXCEPT ![r] = "logged"]
  /\ UNCHANGED <<mwFrame, mwLogger, LogResponse, ctx, body0, requestID, lwr, rec, sink,
                 deferred, hcalls, hread, respRuns, nextUuid, ctxHeap>>

\* The recorder is made, logResponse deferred, the header set and the
\* downstream handler entered: lines 135-141.
Wrap(r) ==
  /\ pc[r] = "logged"
  /\ rec' = [rec EXCEPT ![r] = NewResponseWriterRecorder]
  /\ deferred' = [deferred EXCEPT ![r] = LogResponse]
  /\ sink' = [sink EXCEPT ![r] = HeaderAdd(sink[r], requestID[r])]
  /\ pc' = [pc EXCEPT ![r] = "serving"]
  /\ UNCHANGED <<mwFrame, mwLogger, LogResponse, ctx, body, body0, requestID, lwr, hcalls,
                 hread, respRuns, nextUuid, out, ctxHeap>>

\* The downstream handler calls WriteHeader on the writer it was given.
HWriteHeader(r, code) ==
  /\ pc[r] = "serving"
  /\ Len(hcalls[r]) < MaxCalls
  /\ LET res == RecWriteHeader(rec[r], sink[r], code)
     IN /\ rec' = [rec EXCEPT ![r] = res.rec]
        /\ sink' = [sink EXCEPT ![r] = res.sink]
  /\ hcalls' = [hcalls EXCEPT ![r] =
       Append(@, [call |-> WriteHeaderCall(code), sinkRet |-> [n |-> 0, err |-> FALSE],
                  ret |-> [n |-> 0, err |-> FALSE]])]
  /\ UNCHANGED <<mwFrame, mwLogger, LogResponse, pc, ctx, body, body0, requestID, lwr,
                 deferred, hread, respRuns, nextUuid, out, ctxHeap>>

\* The downstream handler calls Write on the writer it was given; the sink's
\* Write returns sres.
HWrite(r, b, sres) ==
  /\ pc[r] = "serving"
  /\ Len(hcalls[r]) < MaxCalls
  /\ LET res == RecWrite(rec[r], sink[r], b, sres)
     IN /\ rec' = [rec EXCEPT ![r] = res.rec]
        /\ sink' = [sink EXCEPT ![r] = res.sink]
        /\ hcalls' = [hcalls EXCEPT ![r] =
             Append(@, [call |-> WriteCall(b), sinkRet |-> sres, ret |-> res.ret])]
  /\ UNCHANGED <<mwFrame, mwLogger, LogResponse, pc, ctx, body, body0, requestID, lwr,
                 deferred, hread, respRuns, nextUuid, out, ctxHeap>>

\* The downstream handler reads the request body to its end.
HReadBody(r) ==
  /\ pc[r] = "serving"
  /\ ~hread[r].done
  /\ LET ra == ReadAll(body[r])
     IN /\ hread' = [hread EXCEPT ![r] = [done |-> TRUE, buf |-> ra.buf, err |-> ra.err]]
        /\ body' = [body EXCEPT ![r] = ra.after]
  /\ UNCHANGED <<mwFrame, mwLogger, LogResponse, pc, ctx, body0, requestID, lwr, rec, sink,
                 deferred, hcalls, respRuns, nextUuid, out, ctxHeap>>

\* The downstream handler returns.
HReturn(r) ==
  /\ pc[r] = "serving"
  /\ pc' = [pc EXCEPT ![r] = "returned"]
  /\ UNCHANGED <<mwFrame, mwLogger, LogResponse, reqVars, nextUuid, out, ctxHeap>>

\* The downstream handler panics.
HPanic(r) ==
  /\ pc[r] = "serving"
  /\ pc' = [pc EXCEPT ![r] = "panicking"]
  /\ UNCHANGED <<mwFrame, mwLogger, LogResponse, reqVars, nextUuid, out, ctxHeap>>

\* A handler function whose deferred call recovers: it always returns.
LeftAsRecovered(outcome) == "done"

\* How the handler function is left after its deferred calls: it returns
\* when the downstream handler returned, and the panic goes on when it
\* panicked (nothing recovers it).
LeftAs(outcome) == IF outcome = "returned" THEN "done" ELSE "panicked"

\* The handler function is left: the deferred logResponse runs (line 137),
\* then the function returns or the panic goes on to the host.
Unwind(r) ==
  /\ pc[r] \in {"returned", "panicking"}
  /\ IF RunsDeferred(deferred[r], pc[r])
       THEN /\ out' = logResponse(out, lwr[r], rec[r], sink[r], r)
            /\ respRuns' = [respRuns EXCEPT ![r] = @ + 1]
       ELSE UNCHANGED <<out, respRuns>>
  /\ pc' = [pc EXCEPT ![r] = LeftAs(pc[r])]
  /\ UNCHANGED <<mwFrame, mwLogger, LogResponse, ctx, body, body0, requestID, lwr, rec, sink,
                 deferred, hcalls, hread, nextUuid, ctxHeap>>

\* The status codes and payloads the downstream handler writes.
StatusCodes == {200, 404}
Payloads == {Bytes(<<"{", "}">>), Bytes(<<"h">>), NilBytes}

MwStep(r) ==
  \/ \E kind \in IncomingKinds, b \in RequestBodies : Begin(r, kind, b)
  \/ LogRequest(r)
  \/ Wrap(r)
  \/ \E code \in StatusCodes : HWriteHeader(r, code)
  \/ \E b \in Payloads : \E sres \in SinkResults(b) : HWrite(r, b, sres)
  \/ HReadBody(r)
  \/ HReturn(r)
  \/ HPanic(r)
  \/ Unwind(r)

(***************************************************************************)
(* Specifications                                                          *)
(***************************************************************************)

MwIdle ==
  /\ mwLogger = New(INFO) /\ LogResponse = TRUE /\ builtBy = "NewMiddleware"
  /\ pc = [r \in Reqs |-> "idle"]
  /\ ctx = [r \in Reqs |-> Background]
  /\ body = [r \in Reqs |-> NoBody]
  /\ body0 = [r \in Reqs |-> NoBody]
  /\ requestID = [r \in Reqs |-> Unset]
  /\ lwr = [r \in Reqs |-> New(INFO)]
  /\ rec = [r \in Reqs |-> NewResponseWriterRecorder]
  /\ sink = [r \in Reqs |-> NewSink(<<>>)]
  /\ deferred = [r \in Reqs |-> FALSE]
  /\ hcalls = [r \in Reqs |-> <<>>]
  /\ hread = [r \in Reqs |-> NoRead]
  /\ respRuns = [r \in Reqs |-> 0]
  /\ nextUuid = 1

\* One request served by the middleware.
Init == LvlIdle /\ LgIdle /\ ctxBound = <<>> /\ MwInit
Next == MwStep(1)
Spec == Init /\ [][Next]_vars

\* The Level conversions applied to their arguments.
InitLevel == LvlInit /\ LgIdle /\ out = <<>> /\ CtxInit /\ MwIdle
NextLevel == LvlNext
SpecLevel == InitLevel /\ [][NextLevel]_vars

\* A logger, the loggers derived from it and their emissions.
InitLogger == LvlIdle /\ LgInit /\ CtxInit /\ MwIdle
NextLogger == LgNext
SpecLogger == InitLogger /\ [][NextLogger]_vars

\* Contexts derived from one another.
InitCtx == LvlIdle /\ LgIdle /\ out = <<>> /\ CtxInit /\ MwIdle
NextCtx == CtxNext
SpecCtx == InitCtx /\ [][NextCtx]_vars

\* What tells the requests served concurrently apart: each sends its own
\* body, and its handler answers with its own status and payload.
ReqTags == <<"r1", "r2", "r3", "r4">>
ReqBody(r) == Stream(<<"q", ReqTags[r]>>, 0 - 1)
StatusOf(r) == 400 + r
PayloadOf(r) == Bytes(<<"p", ReqTags[r]>>)
WrittenAll(b) == [n |-> Len(b.b), err |-> FALSE]

\* One step of request r when requests are served concurrently; its
\* handler calls WriteHeader, then Write, and returns, or panics on the way.
ConcStep(r) ==
  \/ Begin(r, "background", ReqBody(r))
  \/ LogRequest(r)
  \/ Wrap(r)
  \/ hcalls[r] = <<>> /\ HWriteHeader(r, StatusOf(r))
  \/ Len(hcalls[r]) = 1 /\ HWrite(r, PayloadOf(r), WrittenAll(PayloadOf(r)))
  \/ Len(hcalls[r]) = 2 /\ HReturn(r)
  \/ hcalls[r] # <<>> /\ HPanic(r)
  \/ Unwind(r)

\* The requests served concurrently through one middleware, the host
\* running one goroutine for each.
InitConc ==
  /\ LvlIdle /\ LgIdle /\ ctxBound = <<>> /\ MwInit
  /\ mwLogger = New(DEBUG) /\ builtBy = "NewMiddleware"
NextConc == \E r \in Reqs : ConcStep(r)
SpecConc == InitConc /\ [][NextConc]_vars

(***************************************************************************)
(* Properties                                                              *)
(***************************************************************************)
\* The requests whose downstream handler has been entered.
Entered(r) == pc[r] \in {"serving", "returned", "panicking", "done", "panicked"}
\* The requests the handler function has been left for.
Left(r) == pc[r] \in {"done", "panicked"}

\* The entries of the log sink a request wrote, and its response entries.
EntriesOf(r) == {i \in DOMAIN out : out[i].by = r}
ResponseEntriesOf(r) == {i \in EntriesOf(r) : "status" \in DOMAIN out[i].data}
RequestEntriesOf(r) == {i \in EntriesOf(r) : "uri" \in DOMAIN out[i].data}

\* The positions of the handler's Write and WriteHeader calls.
WritesOf(r) == {i \in DOMAIN hcalls[r] : hcalls[r][i].call.op = "Write"}
HeadersOf(r) == {i \in DOMAIN hcalls[r] : hcalls[r][i].call.op = "WriteHeader"}
MaxOf(S) == CHOOSE i \in S : \A j \in S : j <= i

\* C1: with LogResponse true, logResponse runs exactly once for every
\* request, and only once the downstream handler has returned or panicked:
\* it has not run while the handler runs, it has run once when the handler
\* function is left, and then the log sink of a DEBUG logger holds exactly
\* one response entry of the request.
C1_ResponseLoggedOnce ==
  LogResponse =>
    \A r \in Reqs :
      /\ respRuns[r] <= 1
      /\ respRuns[r] = 1 => Left(r)
      /\ Left(r) => respRuns[r] = 1
      /\ mwLogger = New(DEBUG) => Cardinality(ResponseEntriesOf(r)) = respRuns[r]

C1_Witness ==
  /\ LogResponse /\ mwLogger = New(DEBUG)
  /\ pc[1] = "panicked" /\ respRuns[1] = 1
  /\ Cardinality(ResponseEntriesOf(1)) = 1

\* The calls the sink is to receive for the calls the handler made: the
\* same calls in the same order, with WriteHeader(200) put before the first
\* Write when no WriteHeader came before it.
RECURSIVE Forwarded(_, _)
Forwarded(calls, committed) ==
  IF calls = <<>> THEN <<>>
  ELSE LET c == Head(calls).call
       IN (IF c.op = "Write" /\ ~committed THEN <<WriteHeaderCall(200), c>> ELSE <<c>>)
          \o Forwarded(Tail(calls), TRUE)

\* C2: the recorder is observational: the sink has received exactly the
\* handler's WriteHeader and Write calls, same arguments, same order, plus
\* one WriteHeader(200) before a first Write that no WriteHeader preceded,
\* and every Write returned to the handler what the sink's Write returned.
C2_RecorderObservational ==
  \A r \in Reqs :
    /\ sink[r].calls = Forwarded(hcalls[r], FALSE)
    /\ \A i \in DOMAIN hcalls[r] : hcalls[r][i].ret = hcalls[r][i].sinkRet

C2_Witness ==
  /\ Len(hcalls[1]) = 2
  /\ hcalls[1][1].call.op = "Write" /\ hcalls[1][1].sinkRet.err /\ hcalls[1][1].ret.err
  /\ hcalls[1][2].call.op = "WriteHeader"
  /\ Len(sink[1].calls) = 3

\* C3: once the downstream handler is entered, the generated request ID is
\* what GetRequestID returns on the handler's context, the requestId field
\* of the logger GetLogger returns on it, the Request-ID value the
\* middleware added to the response header, and the requestId field of
\* every entry the request has logged.
C3_OneRequestID ==
  \A r \in Reqs :
    Entered(r) =>
      /\ requestID[r] # Unset
      /\ GetRequestID(ctxHeap, ctx[r]) = requestID[r]
      /\ ContextKeyRequestID \in DOMAIN GetLogger(ctxHeap, ctx[r]).data
      /\ GetLogger(ctxHeap, ctx[r]).data[ContextKeyRequestID] = requestID[r]
      /\ sink[r].header # <<>>
      /\ sink[r].header[Len(sink[r].header)] = requestID[r]
      /\ \A i \in EntriesOf(r) :
           /\ ContextKeyRequestID \in DOMAIN out[i].data
           /\ out[i].data[ContextKeyRequestID] = requestID[r]

C3_Witness ==
  /\ pc[1] = "done" /\ LogResponse
  /\ Cardinality(EntriesOf(1)) = 2
  /\ ctxHeap[1].key = ContextKeyRequestID /\ ctxHeap[1].val = StringVal(OuterID)
  /\ ctxHeap[2].key = ContextKeyLogger
  /\ GetRequestID(ctxHeap, ctx[1]) = NewUuid(1)

\* The bytes a body delivers to whoever reads it from its start.
Deliverable(b) ==
  SubSeq(b.data, 1, IF b.failAt >= 0 THEN b.failAt ELSE Len(b.data))

\* C4: whenever a request body is present, what the downstream handler
\* reads from the request body is the bytes of the body as it arrived, all
\* of them and in order.
C4_BodyNotConsumed ==
  \A r \in Reqs :
    (hread[r].done /\ body0[r].kind # "NoBody") =>
      hread[r].buf = Deliverable(body0[r])

\* Merging as the claims state it: the keys of both, g winning.
Merged(f, g) ==
  [k \in DOMAIN f \cup DOMAIN g |-> IF k \in DOMAIN g THEN g[k] ELSE f[k]]

\* A mapping together with the stack trace WithFields synthesizes for it.
WithStackTrace(f) ==
  IF ErrorKey \in DOMAIN f
    THEN [k \in DOMAIN f \cup {StacktraceKey} |->
            IF k = StacktraceKey THEN Render(f[ErrorKey]) ELSE f[k]]
    ELSE f

\* The WithFields calls j made on the result of call i.
Chained(i, j) ==
  /\ i \in DOMAIN lcalls /\ j \in DOMAIN lcalls
  /\ lcalls[j].recv = lcalls[i].res

\* C5 as stated: L.WithFields(F1).WithFields(F2) has L's fields merged with
\* F1 then F2 and nothing else, receivers keep their fields, nothing is
\* written to the sink.
C5_ChainMergesExactly ==
  /\ \A i \in DOMAIN lcalls :
       /\ entries[lcalls[i].res].data = Merged(lcalls[i].recvBefore, lcalls[i].arg)
       /\ entries[lcalls[i].recv].data = lcalls[i].recvBefore
       /\ lcalls[i].wrote = 0
  /\ \A i, j \in DOMAIN lcalls :
       Chained(i, j) =>
         entries[lcalls[j].res].data =
           Merged(Merged(lcalls[i].recvBefore, lcalls[i].arg), lcalls[j].arg)

\* C5 amended: L.WithFields(F1).WithFields(F2) has L's fields merged with
\* F1 then F2, each taken together with the stack_trace synthesized for its
\* "error" key, the later mapping winning; L and L.WithFields(F1) keep their
\* fields; WithFields writes nothing to the sink.
C5_ChainMergesWithStackTrace ==
  /\ \A i \in DOMAIN lcalls :
       /\ entries[lcalls[i].res].data =
            Merged(lcalls[i].recvBefore, WithStackTrace(lcalls[i].arg))
       /\ entries[lcalls[i].recv].data = lcalls[i].recvBefore
       /\ lcalls[i].wrote = 0
  /\ \A i, j \in DOMAIN lcalls :
       Chained(i, j) =>
         entries[lcalls[j].res].data =
           Merged(Merged(lcalls[i].recvBefore, WithStackTrace(lcalls[i].arg)),
                  WithStackTrace(lcalls[j].arg))

C5_Witness ==
  \E i, j \in DOMAIN lcalls :
    /\ Chained(i, j)
    /\ "a" \in DOMAIN lcalls[i].arg /\ "a" \in DOMAIN lcalls[j].arg
    /\ lcalls[i].arg["a"] # lcalls[j].arg["a"]
    /\ "b" \in DOMAIN lcalls[i].arg /\ "b" \notin DOMAIN lcalls[j].arg
    /\ entries[lcalls[j].res].data["a"] = lcalls[j].arg["a"]
    /\ entries[lcalls[j].res].data["b"] = lcalls[i].arg["b"]
    /\ entries[lcalls[i].res].data["a"] = lcalls[i].arg["a"]

\* C6: for a logger made with a Level M among DEBUG, INFO, WARN, ERROR, an
\* emitting call at Level V on it or on a logger derived from it writes one
\* entry, that logger's, to the sink when V >= M and nothing when V < M.
C6_LevelGating ==
  lgMin \in Levels =>
    /\ \A i \in DOMAIN emits :
         emits[i].wrote = IF emits[i].v >= lgMin THEN 1 ELSE 0
    /\ Len(out) = Cardinality({i \in DOMAIN emits : emits[i].v >= lgMin})
    /\ \A i \in DOMAIN out : \E e \in DOMAIN entries : out[i].data = entries[e].data

C6_Witness ==
  /\ lgMin = WARN
  /\ \E i \in DOMAIN emits :
       emits[i].entry > 1 /\ emits[i].v = WARN /\ emits[i].wrote = 1
  /\ Len(out) = 1

\* C7: a new recorder has status 200 and no committed header; once the
\* handler has written without calling WriteHeader the status is 200 and
\* the header committed; once it has called WriteHeader the status is the
\* code of its last WriteHeader, whatever it wrote afterwards.
C7_StatusCapture ==
  \A r \in Reqs :
    Entered(r) =>
      /\ hcalls[r] = <<>> => rec[r].status = 200 /\ ~rec[r].isStatusSet
      /\ hcalls[r] # <<>> => rec[r].isStatusSet
      /\ HeadersOf(r) = {} => rec[r].status = 200
      /\ HeadersOf(r) # {} =>
           rec[r].status = hcalls[r][MaxOf(HeadersOf(r))].call.code

C7_Witness ==
  /\ Len(hcalls[1]) = 2
  /\ hcalls[1][1].call = WriteHeaderCall(404)
  /\ hcalls[1][2].call.op = "Write"
  /\ rec[1].status = 404

\* The sequence s restricted to the positions in S.
RECURSIVE Select(_, _)
Select(s, S) ==
  IF S = {} THEN <<>>
  ELSE LET i == MaxOf(S) IN Append(Select(s, S \ {i}), s[i])

\* C8: before any Write the captured body is absent; after Writes the
\* captured body is the payload of the last Write alone, and the sink has
\* received the payloads of all the Writes in order.
C8_BodyLastWriteWins ==
  \A r \in Reqs :
    Entered(r) =>
      /\ WritesOf(r) = {} => rec[r].body = NilBytes
      /\ WritesOf(r) # {} => rec[r].body = hcalls[r][MaxOf(WritesOf(r))].call.b
      /\ LET sinkWrites == {i \in DOMAIN sink[r].calls : sink[r].calls[i].op = "Write"}
         IN [i \in DOMAIN Select(sink[r].calls, sinkWrites) |->
               Select(sink[r].calls, sinkWrites)[i].b]
            = [i \in DOMAIN Select(hcalls[r], WritesOf(r)) |->
                 Select(hcalls[r], WritesOf(r))[i].call.b]

C8_Witness ==
  /\ Len(hcalls[1]) = 2
  /\ hcalls[1][1].call = WriteCall(Bytes(<<"{", "}">>))
  /\ hcalls[1][2].call = WriteCall(Bytes(<<"h">>))
  /\ rec[1].body = Bytes(<<"h">>)

\* C9: GetRequestID on a context that binds no request ID returns
\* "Unknown" and GetLogger on a context that binds no logger returns a
\* logger that emits at INFO and not at DEBUG; on every context made by the
\* derive operations each returns what was last bound in its lineage when
\* it was made, so deriving a child changes nothing for its ancestors; no
\* lookup panics.
C9_ContextLookups ==
  /\ GetRequestID(ctxHeap, Background) = "Unknown"
  /\ IsLevelEnabled(GetLogger(ctxHeap, Background).level, LogrusInfoLevel)
  /\ ~IsLevelEnabled(GetLogger(ctxHeap, Background).level, LogrusDebugLevel)
  /\ \A c \in DOMAIN ctxHeap :
       /\ GetRequestID(ctxHeap, c) = ctxBound[c].rid
       /\ GetRequestID(ctxHeap, c) # Panicked
       /\ GetLogger(ctxHeap, c) = ctxBound[c].logger

C9_Witness ==
  \E c, d, e \in DOMAIN ctxHeap :
    /\ ctxHeap[d].parent = c /\ ctxHeap[e].parent = c /\ d # e
    /\ ctxHeap[c].key = ContextKeyRequestID
    /\ ctxHeap[d].key = ContextKeyRequestID
    /\ ctxHeap[e].key = ContextKeyLogger
    /\ GetRequestID(ctxHeap, c) = "id-a"
    /\ GetRequestID(ctxHeap, d) = "id-b"
    /\ GetRequestID(ctxHeap, e) = "id-a"
    /\ GetLogger(ctxHeap, d) = New(INFO)
    /\ GetLogger(ctxHeap, e) = New(DEBUG)

\* C10: for every Level l among DEBUG, INFO, WARN, ERROR,
\* GetLevel(l.String()) = l, and for every name s among debug, info, warn,
\* error, GetLevel(s).String() = s.
C10_LevelNameBidirectional ==
  /\ (lvArg \in Levels /\ backLevel # NoLevel) => backLevel = lvArg
  /\ (nameArg \in RecognizedNames /\ backName # Unset) => backName = nameArg

\* The WithFields calls whose mapping has key "error".
ErrorCalls == {i \in DOMAIN lcalls : ErrorKey \in DOMAIN lcalls[i].arg}

\* C11 as stated: a WithFields call whose mapping has key "error" yields a
\* logger with a non-empty field "stackTrace" that holds the extended
\* rendering of the error value.
C11_StackTraceField ==
  \A i \in ErrorCalls :
    /\ "stackTrace" \in DOMAIN entries[lcalls[i].res].data
    /\ entries[lcalls[i].res].data["stackTrace"] # ""
    /\ entries[lcalls[i].res].data["stackTrace"] = Render(lcalls[i].arg[ErrorKey])

\* C11 amended: a WithFields call whose mapping has key "error" yields a
\* logger with a field "stack_trace" that holds the extended rendering of
\* the error value (non-empty when that rendering is), and holds it from
\* the call on, before anything is emitted.
C11_StackTraceKeyField ==
  \A i \in ErrorCalls :
    /\ StacktraceKey \in DOMAIN entries[lcalls[i].res].data
    /\ entries[lcalls[i].res].data[StacktraceKey] = Render(lcalls[i].arg[ErrorKey])
    /\ Render(lcalls[i].arg[ErrorKey]) # "" =>
         entries[lcalls[i].res].data[StacktraceKey] # ""
    /\ "stackTrace" \notin DOMAIN entries[lcalls[i].res].data

C11_Witness ==
  /\ emits = <<>> /\ out = <<>>
  /\ \E i \in ErrorCalls :
       /\ lcalls[i].arg[ErrorKey] = "errStack"
       /\ entries[lcalls[i].res].data[StacktraceKey] = "errStack+stack"

\* C17: GetLevel returns a Level for every string, DEBUG for every string
\* that is not exactly debug, info, warn or error, and String returns a
\* name for every value of the Level type; neither fails.
C17_ConversionsTotal ==
  /\ getRes # NoLevel =>
       /\ getRes \in Levels
       /\ nameArg \notin RecognizedNames => getRes = DEBUG
  /\ strRes # Unset => strRes # Panicked

\* C20: WithFields leaves the mapping it is given as it was: the caller's
\* mapping holds the same keys and values after the call as before it.
C20_ArgumentUnchanged ==
  \A i \in DOMAIN lcalls : lcalls[i].argAfter = lcalls[i].arg

\* Whether a log entry carries a non-empty bodyError field.
HasBodyError(e) == "bodyError" \in DOMAIN e.data /\ e.data["bodyError"] # ""

\* The value a JSON text decodes to.
Decoded(b) == [t |-> "json", v |-> b]

\* The requests whose body arrived and was read without an I/O error.
BodyRead(r) == body0[r].kind # "NoBody" /\ body0[r].failAt < 0

\* The next step of the middleware for a request is never blocked.
Proceeds(r) ==
  /\ pc[r] = "bound" => ENABLED LogRequest(r)
  /\ pc[r] = "logged" => ENABLED Wrap(r)
  /\ pc[r] \in {"returned", "panicking"} => ENABLED Unwind(r)

\* C12: when the request body is read and is not JSON the request entry
\* carries its raw text as requestBody and a non-empty bodyError; when it
\* is JSON the entry carries the decoded value and no bodyError; the same
\* holds of the response entry, responseBody and the recorder's captured
\* body; and in every case the middleware goes on to the handler and to
\* the response log, and the sink receives the handler's calls unchanged.
C12_DecodeFailureDegrades ==
  \A r \in Reqs :
    /\ \A i \in RequestEntriesOf(r) :
         BodyRead(r) =>
           IF body0[r].data \in JSONTexts
             THEN out[i].data["requestBody"] = Decoded(body0[r].data)
                  /\ "bodyError" \notin DOMAIN out[i].data
             ELSE out[i].data["requestBody"] = StringVal(body0[r].data)
                  /\ HasBodyError(out[i])
    /\ \A i \in ResponseEntriesOf(r) :
         ~rec[r].body.nil =>
           IF rec[r].body.b \in JSONTexts
             THEN out[i].data["responseBody"] = Decoded(rec[r].body.b)
                  /\ "bodyError" \notin DOMAIN out[i].data
             ELSE out[i].data["responseBody"] = StringVal(rec[r].body.b)
                  /\ HasBodyError(out[i])
    /\ Proceeds(r)
    /\ sink[r].calls = Forwarded(hcalls[r], FALSE)

C12_Witness ==
  /\ pc[1] = "done"
  /\ body0[1] = Stream(<<"h", "i">>, 0 - 1)
  /\ rec[1].body = Bytes(<<"{", "}">>)
  /\ \E i \in RequestEntriesOf(1) :
       out[i].data["requestBody"] = StringVal(<<"h", "i">>) /\ HasBodyError(out[i])
  /\ \E i \in ResponseEntriesOf(1) :
       out[i].data["responseBody"] = Decoded(<<"{", "}">>)
       /\ "bodyError" \notin DOMAIN out[i].data
  /\ Len(sink[1].sent) = 2

\* C15: when reading the request body fails, the request entry carries a
\* non-empty bodyError and no body, and when the request has no body the
\* entry carries no body and no bodyError; in both cases the middleware
\* goes on to the handler and to the response log, and the sink receives
\* the handler's calls.
C15_ReadErrorDoesNotAbort ==
  \A r \in Reqs :
    /\ \A i \in RequestEntriesOf(r) :
         /\ (body0[r].kind # "NoBody" /\ body0[r].failAt >= 0) =>
              out[i].data["requestBody"] = NilVal /\ HasBodyError(out[i])
         /\ body0[r].kind = "NoBody" =>
              out[i].data["requestBody"] = NilVal
              /\ "bodyError" \notin DOMAIN out[i].data
    /\ Proceeds(r)
    /\ sink[r].calls = Forwarded(hcalls[r], FALSE)

C15_Witness ==
  /\ pc[1] = "done"
  /\ body0[1] = Stream(<<"{", "}">>, 1)
  /\ \E i \in RequestEntriesOf(1) :
       out[i].data["requestBody"] = NilVal /\ out[i].data["bodyError"] = "readErr"
  /\ Cardinality(ResponseEntriesOf(1)) = 1
  /\ Len(hcalls[1]) = 2 /\ Len(sink[1].sent) > 0

\* What an entry logs for a captured body.
LoggedBody(b) ==
  IF b.nil THEN NilVal
  ELSE IF b.b \in JSONTexts THEN Decoded(b.b) ELSE StringVal(b.b)

\* C13: the steps of one request come in order: the request ID and the
\* derived logger are bound into the context before anything is logged;
\* the request entry is logged before the recorder is made and the
\* Request-ID header set; both come before any call of the handler; and
\* the response entry comes after the request entry, once the handler
\* function is left, with the status and the body the recorder holds after
\* the handler's last call.
C13_StepOrder ==
  \A r \in Reqs :
    /\ pc[r] = "idle" => requestID[r] = Unset /\ EntriesOf(r) = {}
    /\ pc[r] # "idle" =>
         /\ requestID[r] # Unset
         /\ GetRequestID(ctxHeap, ctx[r]) = requestID[r]
         /\ GetLogger(ctxHeap, ctx[r]) = lwr[r]
    /\ pc[r] = "bound" => EntriesOf(r) = {}
    /\ (pc[r] \notin {"idle", "bound"} /\ mwLogger = New(DEBUG)) =>
         Cardinality(RequestEntriesOf(r)) = 1
    /\ ~Entered(r) =>
         /\ rec[r] = NewResponseWriterRecorder
         /\ \A i \in DOMAIN sink[r].header : sink[r].header[i] # requestID[r]
         /\ hcalls[r] = <<>> /\ sink[r].calls = <<>> /\ ~hread[r].done
    /\ Entered(r) =>
         sink[r].header # <<>> /\ sink[r].header[Len(sink[r].header)] = requestID[r]
    /\ \A i \in ResponseEntriesOf(r) :
         /\ Left(r)
         /\ \A j \in RequestEntriesOf(r) : j < i
         /\ out[i].data["status"] = rec[r].status
         /\ out[i].data["responseBody"] = LoggedBody(rec[r].body)
         /\ out[i].data["header"] = sink[r].header
         /\ WritesOf(r) # {} =>
              hcalls[r][MaxOf(WritesOf(r))].call = WriteCall(rec[r].body)
         /\ HeadersOf(r) # {} /\ (WritesOf(r) = {} \/ MaxOf(WritesOf(r)) < MaxOf(HeadersOf(r))
                                  \/ \E k \in HeadersOf(r) : \A w \in WritesOf(r) : k < w) =>
              hcalls[r][MaxOf(HeadersOf(r))].call = WriteHeaderCall(rec[r].status)

C13_Witness ==
  /\ pc[1] = "done" /\ mwLogger = New(DEBUG)
  /\ Len(hcalls[1]) = 2
  /\ hcalls[1][1].call = WriteHeaderCall(404)
  /\ hcalls[1][2].call = WriteCall(Bytes(<<"h">>))
  /\ RequestEntriesOf(1) = {1} /\ ResponseEntriesOf(1) = {2}
  /\ out[2].data["status"] = 404
  /\ out[2].data["responseBody"] = StringVal(<<"h">>)

\* What a request has logged other than response entries.
NonResponseOf(r) ==
  LET Mine(e) == e.by = r /\ "status" \notin DOMAIN e.data
  IN SelectSeq(out, Mine)

\* C16: with LogResponse false logResponse never runs and no response
\* entry is logged, and everything else is what it is with LogResponse
\* true: the request ID and the derived logger are bound into the context,
\* what the request logs besides is exactly what logRequest writes
\* for the arriving body, the Request-ID header is set, and the sink gets
\* the handler's calls through the recorder; a middleware made by
\* NewMiddleware has LogResponse true and runs logResponse once.
C16_OptionGatesResponseOnly ==
  \A r \in Reqs :
    /\ ~LogResponse =>
         respRuns[r] = 0 /\ ~deferred[r] /\ ResponseEntriesOf(r) = {}
    /\ pc[r] # "idle" =>
         /\ requestID[r] # Unset
         /\ GetRequestID(ctxHeap, ctx[r]) = requestID[r]
         /\ lwr[r] = WithFields(mwLogger, (ContextKeyRequestID :> requestID[r]))
         /\ GetLogger(ctxHeap, ctx[r]) = lwr[r]
    /\ NonResponseOf(r) =
         IF pc[r] \in {"idle", "bound"} THEN <<>>
         ELSE logRequest(<<>>, lwr[r], body0[r], r).out
    /\ Entered(r) =>
         sink[r].header # <<>> /\ sink[r].header[Len(sink[r].header)] = requestID[r]
    /\ sink[r].calls = Forwarded(hcalls[r], FALSE)
    /\ \A i \in DOMAIN hcalls[r] : hcalls[r][i].ret = hcalls[r][i].sinkRet
    /\ builtBy = "NewMiddleware" =>
         /\ LogResponse
         /\ Left(r) => respRuns[r] = 1

C16_Witness ==
  /\ builtBy = "NewMiddlewareWithOptions" /\ ~LogResponse
  /\ mwLogger = New(DEBUG)
  /\ pc[1] = "done" /\ Len(hcalls[1]) = 2
  /\ Cardinality(RequestEntriesOf(1)) = 1 /\ Len(out) = 1
  /\ sink[1].header = <<NewUuid(1)>>

\* C18: once the sink has committed a status, the recorder holds that
\* status, and so does the status field of the response entry.
C18_StatusIsCommittedStatus ==
  \A r \in Reqs :
    sink[r].committed # 0 =>
      /\ rec[r].status = sink[r].committed
      /\ \A i \in ResponseEntriesOf(r) : out[i].data["status"] = sink[r].committed

\* The handler function of request r is left in this step.
Leaves(r) == pc[r] \in {"returned", "panicking"} /\ pc'[r] # pc[r]

\* C19: when the downstream handler has panicked, the handler function is
\* left by the panic going on to the host, after the deferred logResponse
\* has run and written its entry; when the handler has returned, the
\* handler function returns; and it is left in no other way.
C19_PanicPropagates ==
  [][\A r \in Reqs :
       /\ (pc[r] = "panicking" /\ Leaves(r)) =>
            /\ pc'[r] = "panicked"
            /\ LogResponse =>
                 /\ respRuns'[r] = respRuns[r] + 1
                 /\ mwLogger = New(DEBUG) =>
                      /\ Len(out') = Len(out) + 1
                      /\ out'[Len(out')].by = r
                      /\ out'[Len(out')].data["status"] = rec[r].status
       /\ (pc[r] = "returned" /\ Leaves(r)) => pc'[r] = "done"
       /\ (pc'[r] = "panicked" /\ pc[r] # "panicked") => pc[r] = "panicking"
       /\ (pc'[r] = "done" /\ pc[r] # "done") => pc[r] = "returned"
       /\ pc[r] \in {"done", "panicked"} => pc'[r] = pc[r]
       /\ pc[r] \in {"returned", "panicking"} => ENABLED Unwind(r)]_vars

C19_Witness ==
  /\ pc[1] = "panicked" /\ LogResponse /\ mwLogger = New(DEBUG)
  /\ Len(hcalls[1]) = 1 /\ hcalls[1][1].call = WriteHeaderCall(404)
  /\ \E i \in ResponseEntriesOf(1) : i = Len(out) /\ out[i].data["status"] = 404

\* Whether an ID occurs in a header, and whether an entry holds the ID,
\* the body, the payload or the status of request q in the fields that
\* hold such values.
InHeader(h, id) == \E k \in DOMAIN h : h[k] = id
Carries(e, q) ==
  \/ e.data[ContextKeyRequestID] = requestID[q]
  \/ \E k \in {"requestBody", "responseBody"} \cap DOMAIN e.data :
       e.data[k] \in {StringVal(ReqBody(q).data), StringVal(PayloadOf(q).b)}
  \/ "status" \in DOMAIN e.data /\ e.data["status"] = StatusOf(q)
  \/ "status" \in DOMAIN e.data /\ InHeader(e.data["header"], requestID[q])

\* C14: however the steps of concurrent requests interleave, each request
\* has its own request ID, its own derived logger and its own recorder and
\* context; no step changes the base logger, whose field set stays empty;
\* and the entries, the Request-ID header, the captured status and the
\* captured body of a request hold its own ID and data and never those of
\* another request.
C14_RequestsIsolated ==
  /\ mwLogger = New(DEBUG)
  /\ \A r \in Reqs :
       /\ pc[r] # "idle" =>
            /\ requestID[r] # Unset
            /\ lwr[r] = WithFields(mwLogger, (ContextKeyRequestID :> requestID[r]))
            /\ GetRequestID(ctxHeap, ctx[r]) = requestID[r]
            /\ GetLogger(ctxHeap, ctx[r]) = lwr[r]
       /\ Entered(r) => sink[r].header = <<requestID[r]>>
       /\ rec[r].status \in {StatusOK, StatusOf(r)}
       /\ rec[r].body \in {NilBytes, PayloadOf(r)}
       /\ sink[r].calls = Forwarded(hcalls[r], FALSE)
       /\ \A i \in EntriesOf(r) : out[i].data[ContextKeyRequestID] = requestID[r]
       /\ \A i \in RequestEntriesOf(r) :
            out[i].data["requestBody"] = StringVal(ReqBody(r).data)
       /\ \A i \in ResponseEntriesOf(r) :
            /\ out[i].data["status"] = rec[r].status
            /\ out[i].data["responseBody"] = LoggedBody(rec[r].body)
            /\ out[i].data["header"] = <<requestID[r]>>
       /\ \A q \in Reqs \ {r} :
            pc[q] # "idle" /\ pc[r] # "idle" =>
              /\ requestID[q] # requestID[r]
              /\ lwr[q] # lwr[r]
              /\ ctx[q] # ctx[r]
              /\ ~InHeader(sink[r].header, requestID[q])
              /\ rec[r].status # StatusOf(q)
              /\ rec[r].body # PayloadOf(q)
              /\ GetRequestID(ctxHeap, ctx[r]) # requestID[q]
              /\ \A i \in EntriesOf(r) : ~Carries(out[i], q)

C14_Witness ==
  /\ pc[1] = "done" /\ pc[2] = "panicked"
  /\ requestID[1] = NewUuid(2) /\ requestID[2] = NewUuid(1)
  /\ Len(out) = 4
  /\ out[1].by = 1 /\ out[2].by = 2 /\ out[3].by = 2 /\ out[4].by = 1
  /\ out[4].data["status"] = StatusOf(1) /\ out[3].data["status"] = StatusOf(2)
  /\ rec[1].body = PayloadOf(1) /\ rec[2].body = NilBytes

====
